---- MODULE Spec2Model ----
(***************************************************************************)
(* Model of src/src/components/PathAnimation.tsx: the geometry kernel, the *)
(* drag controller, the animation frame callback and the effect that       *)
(* registers and cancels it.                                               *)
(*                                                                         *)
(* Numbers.  The code computes with IEEE doubles.  Here a number is an     *)
(* integer counting 1/Unit parts (fixed point), every product, quotient    *)
(* and root is truncated to that resolution the way the hardware rounds to *)
(* 53 bits, and the three non-finite doubles are the values NaN, Inf and   *)
(* NegInf.  Angles keep the code's unit (radians); Math.sin / Math.cos are *)
(* Bhaskara's rational approximation, within 0.2 percent of the sine.      *)
(***************************************************************************)
EXTENDS Integers, Sequences, FiniteSets, TLC

(* ------------------------------------------------------------------ *)
(* Numbers                                                            *)
(* ------------------------------------------------------------------ *)

\* Resolution of the fixed-point numbers: 1 is written Unit.
Unit == 1000

\* The non-finite doubles, outside the range the finite numbers reach.
NaN    == 0 - 2147483647
NegInf == NaN + 1
Inf    == 0 - NegInf

IsNaN(a)    == a = NaN
IsInf(a)    == a = Inf \/ a = NegInf
IsFinite(a) == a > NegInf /\ a < Inf

Abs(a) == IF a < 0 THEN 0 - a ELSE a
Sgn(a) == IF a = NegInf \/ (IsFinite(a) /\ a < 0) THEN 0 - 1 ELSE 1

\* A whole number n as a number of the model.
Num(n) == n * Unit

\* a + b
Add(a, b) ==
    IF IsFinite(a) /\ IsFinite(b) THEN a + b
    ELSE IF IsNaN(a) \/ IsNaN(b) THEN NaN
    ELSE IF IsInf(a) /\ IsInf(b) THEN (IF a = b THEN a ELSE NaN)
    ELSE IF IsInf(a) THEN a
    ELSE b

\* -a
Neg(a) ==
    IF IsFinite(a) THEN 0 - a
    ELSE IF IsNaN(a) THEN NaN
    ELSE IF a = Inf THEN NegInf
    ELSE Inf

\* a - b
Sub(a, b) ==
    IF IsFinite(a) /\ IsFinite(b) THEN a - b ELSE Add(a, Neg(b))

\* x * y / Unit for x, y >= 0, truncated; split so that no intermediate
\* value leaves the 32-bit range.
mulNat(x, y) == x * (y \div Unit) + ((x * (y % Unit)) \div Unit)

\* x * Unit / y for x >= 0, y > 0, truncated; split likewise.
divNat(x, y) == (x \div y) * Unit + (((x % y) * Unit) \div y)

\* a * b, truncated toward zero.
Mul(a, b) ==
    IF IsFinite(a) /\ IsFinite(b)
    THEN (IF (a < 0) = (b < 0) THEN mulNat(Abs(a), Abs(b))
          ELSE 0 - mulNat(Abs(a), Abs(b)))
    ELSE IF IsNaN(a) \/ IsNaN(b) THEN NaN
    ELSE IF a = 0 \/ b = 0 THEN NaN
    ELSE IF Sgn(a) * Sgn(b) < 0 THEN NegInf ELSE Inf

\* a / b, truncated toward zero; x/0 is NaN for x = 0 and an infinity
\* otherwise (the sign of a zero is not modelled).
Div(a, b) ==
    IF IsFinite(a) /\ IsFinite(b) /\ b # 0
    THEN (IF (a < 0) = (b < 0) THEN divNat(Abs(a), Abs(b))
          ELSE 0 - divNat(Abs(a), Abs(b)))
    ELSE IF IsNaN(a) \/ IsNaN(b) THEN NaN
    ELSE IF IsInf(a) THEN (IF IsInf(b) THEN NaN
                           ELSE IF Sgn(a) * Sgn(b) < 0 THEN NegInf ELSE Inf)
    ELSE IF IsInf(b) THEN 0
    ELSE IF a = 0 THEN NaN ELSE IF a < 0 THEN NegInf ELSE Inf

\* a % 1 of JavaScript: the result has the sign of the dividend.
Mod1(a) ==
    IF ~IsFinite(a) THEN NaN
    ELSE IF a >= 0 THEN a % Unit ELSE 0 - ((0 - a) % Unit)

\* a < b and a >= b: every comparison with NaN is false.
Lt(a, b) == ~IsNaN(a) /\ ~IsNaN(b) /\ a < b
Ge(a, b) == ~IsNaN(a) /\ ~IsNaN(b) /\ a >= b

\* Math.abs
MathAbs(a) ==
    IF IsNaN(a) THEN NaN ELSE IF IsInf(a) THEN Inf ELSE Abs(a)

RECURSIVE newton(_, _)
\* Newton's iteration for the root of s (s > 0), from an x not below it:
\* it descends to the truncated root.
newton(s, x) ==
    LET y == (x + divNat(s, x)) \div 2
    IN  IF y >= x THEN x ELSE newton(s, y)

\* A power of ten not below the root of s.
rootBound(s) ==
    IF s < 10 THEN 100
    ELSE IF s < 1000 THEN 1000
    ELSE IF s < 100000 THEN 10000
    ELSE IF s < 10000000 THEN 100000
    ELSE 1500000

\* Math.sqrt of a finite s >= 0, truncated.
Sqrt(s) == IF s = 0 THEN 0 ELSE newton(s, (rootBound(s) * Unit) \div 1000 + 1)

\* Math.hypot(dx, dy)
Hypot(dx, dy) ==
    IF IsFinite(dx) /\ IsFinite(dy) THEN Sqrt(Mul(dx, dx) + Mul(dy, dy))
    ELSE IF IsInf(dx) \/ IsInf(dy) THEN Inf
    ELSE NaN

\* Math.PI
PI == (355 * Unit) \div 113

\* Bhaskara's approximation of sin on [0, PI].
SinHalf(x) ==
    LET p == Mul(x, PI - x)
    IN  Div(16 * p, 5 * Mul(PI, PI) - 4 * p)

\* Math.sin
Sin(a) ==
    IF ~IsFinite(a) THEN NaN
    ELSE LET y == a % (2 * PI)
         IN  IF y <= PI THEN SinHalf(y) ELSE 0 - SinHalf(y - PI)

\* Math.cos
Cos(a) == IF ~IsFinite(a) THEN NaN ELSE Sin(a + (PI \div 2))

(* ------------------------------------------------------------------ *)
(* Geometry kernel                                                    *)
(* ------------------------------------------------------------------ *)

Pt(px, py) == [x |-> px, y |-> py]

LineSeg(f, t) == [type |-> "line", from |-> f, to |-> t]
BezierSeg(f, c, t) == [type |-> "bezier", from |-> f, cp |-> c, to |-> t]
ArcSeg(c, r, a0, a1) ==
    [type |-> "arc", center |-> c, radius |-> r, startAngle |-> a0, endAngle |-> a1]

\* lerp(a, b, t) = a + (b - a) * t
lerp(a, b, t) == Add(a, Mul(Sub(b, a), t))

\* dist(p, q) = Math.hypot(q.x - p.x, q.y - p.y)
dist(p, q) == Hypot(Sub(q.x, p.x), Sub(q.y, p.y))

pointOnLine(p, q, t) == Pt(lerp(p.x, q.x, t), lerp(p.y, q.y, t))

pointOnBezier(s, t) ==
    LET u  == Sub(Unit, t)
        uu == Mul(u, u)
        ut == Mul(Mul(Num(2), u), t)
        tt == Mul(t, t)
    IN  Pt(Add(Add(Mul(uu, s.from.x), Mul(ut, s.cp.x)), Mul(tt, s.to.x)),
           Add(Add(Mul(uu, s.from.y), Mul(ut, s.cp.y)), Mul(tt, s.to.y)))

pointOnArc(s, t) ==
    LET ang == lerp(s.startAngle, s.endAngle, t)
    IN  Pt(Add(s.center.x, Mul(s.radius, Cos(ang))),
           Add(s.center.y, Mul(s.radius, Sin(ang))))

pointOnSeg(seg, t) ==
    IF seg.type = "line" THEN pointOnLine(seg.from, seg.to, t)
    ELSE IF seg.type = "bezier" THEN pointOnBezier(seg, t)
    ELSE pointOnArc(seg, t)

\* The default of bezierLen's parameter n.
BezierSamples == 20

RECURSIVE sumTo(_, _)
\* len after the first i steps of bezierLen's loop, d[k] being the chord
\* step k adds.
sumTo(d, i) == IF i = 0 THEN 0 ELSE Add(sumTo(d, i - 1), d[i])

\* bezierLen(s, n = 20): the chords between the n + 1 sample points.
bezierLen(s) ==
    LET n   == BezierSamples
        pts == [i \in 0..n |->
                  IF i = 0 THEN s.from ELSE pointOnBezier(s, Div(Num(i), Num(n)))]
        d   == [i \in 1..n |-> dist(pts[i - 1], pts[i])]
    IN  sumTo(d, n)

\* A length that counts an arc as nothing.
segLenNoArc(seg) ==
    IF seg.type = "line" THEN dist(seg.from, seg.to)
    ELSE IF seg.type = "bezier" THEN bezierLen(seg)
    ELSE 0

segLen(seg) ==
    IF seg.type = "line" THEN dist(seg.from, seg.to)
    ELSE IF seg.type = "bezier" THEN bezierLen(seg)
    ELSE Mul(MathAbs(Sub(seg.endAngle, seg.startAngle)), seg.radius)

\* segLen of every segment.  segLen is pure: totalLen and the walk of
\* pointOnPath, which the code lets compute it again, read it from here.
segLens(path) == [i \in 1..Len(path.segments) |-> segLen(path.segments[i])]

RECURSIVE reduceLen(_, _)
\* segments.reduce((acc, s) => acc + segLen(s), 0) over the first i segments.
reduceLen(lens, i) == IF i = 0 THEN 0 ELSE Add(reduceLen(lens, i - 1), lens[i])

totalOf(lens) == reduceLen(lens, Len(lens))

totalLen(path) == totalOf(segLens(path))

\* A local parameter measured from the start of the path: tgt / l.
localTOfTarget(tgt, acc, l) == Div(tgt, l)

\* The local parameter pointOnPath hands to pointOnSeg: (tgt - acc) / l.
localT(tgt, acc, l) == Div(Sub(tgt, acc), l)

RECURSIVE walk(_, _, _, _, _)
\* The for loop of pointOnPath from segment i on, with acc as it stands;
\* past the last segment, pointOnSeg(path.segments.at(-1), 1).
walk(segs, lens, tgt, i, acc) ==
    IF i > Len(segs) THEN pointOnSeg(segs[Len(segs)], Unit)
    ELSE IF Ge(Add(acc, lens[i]), tgt)
         THEN pointOnSeg(segs[i], localT(tgt, acc, lens[i]))
         ELSE walk(segs, lens, tgt, i + 1, Add(acc, lens[i]))

\* pointOnPath, given the segment lengths.
pointOnPathOf(path, lens, t) ==
    walk(path.segments, lens, Mul(totalOf(lens), t), 1, 0)

pointOnPath(path, t) == pointOnPathOf(path, segLens(path), t)

\* The path the component is created with.
InitialPath ==
    [segments |-> <<
        LineSeg(Pt(Num(80), Num(60)), Pt(Num(320), Num(60))),
        LineSeg(Pt(Num(320), Num(60)), Pt(Num(320), Num(220))),
        ArcSeg(Pt(Num(200), Num(220)), Num(120), 0, PI),
        BezierSeg(Pt(Num(80), Num(220)), Pt(Num(80), Num(60)), Pt(Num(80), Num(60))) >>]

(* ------------------------------------------------------------------ *)
(* The component: state                                               *)
(* ------------------------------------------------------------------ *)

\* Number of path edits (drag moves) the model follows.
MaxMoves == 2

\* Number of path edits the model follows when every handle is dragged onto
\* the corner the two lines share: one per handle that starts elsewhere.
MaxCollapseMoves == 5
\* Number of frame gaps the host clock advances before it stays put.
MaxFrames == 2
\* Milliseconds between two frames when time passes (a throttled tab).
FrameGap == 40610

\* Timestamps the host may pass: up to this one.
MaxTime == MaxFrames * FrameGap
\* Time that passes between one animation frame and the next.
DtSet == {0, FrameGap}

\* Pointer positions mousePos may return, in canvas pixels: on the first
\* handle of the path and on the far end of its first segment.
Pointer ==
    { Pt(Num(c[1]), Num(c[2])) : c \in { <<80, 60>>, <<320, 60>> } }

\* The pointer positions of the drag-only specification: also 6 and
\* exactly 8 pixels beside the first handle, and on the arc's center.
DragPointer ==
    Pointer \cup
    { Pt(Num(c[1]), Num(c[2])) : c \in { <<86, 60>>, <<88, 60>>, <<200, 220>> } }

\* The pointer positions of the stretch specification: on the far end of
\* the second segment and two places further down the canvas.
StretchPointer ==
    { Pt(Num(c[1]), Num(c[2])) : c \in { <<320, 220>>, <<320, 443>>, <<320, 460>> } }

VARIABLES
    path,          \* useState: the editable path
    dragging,      \* useState: <<>> (null) or <<h>>, h the grabbed Handle
    mounted,       \* the component is mounted (the canvas element exists)
    frame,         \* the frame callback of the latest render (a closure id)
    closures,      \* closure id -> the path and the objects it captured
    effectPending, \* the [frame] effect of the latest render has yet to run
    hasCleanup,    \* an earlier run of the effect left its cleanup behind
    raf,           \* the host's pending animation-frame requests
    reqRef,        \* reqRef.current
    prevTimeRef,   \* prevTimeRef.current (ms)
    now,           \* the host clock: the latest timestamp handed out (ms)
    pos,           \* the positions the latest painted frame drew
    collided,      \* the collision flags the latest painted frame drew
    moves,         \* path edits so far
    last,          \* the operation that led to this state
    call,          \* a call of pointOnPath under examination: path and t
    stop           \* <<>> or <<s>>, s telling where the loop of that call returned

vars == << path, dragging, mounted, frame, closures, effectPending, hasCleanup,
           raf, reqRef, prevTimeRef, now, pos, collided, moves, last,
           call, stop >>

\* The literals of `objects`: radius and speed; phase is the state.
ObjRadius == << Num(6), Num(6) >>
ObjSpeed  == << Num(100), Num(120) >>
\* The phases a freshly built `objects` array holds: 0.0 and 0.3.
InitialPhase == << 0, (3 * Unit) \div 10 >>
NObjects == Len(ObjRadius)

\* The hit radius of onDown.
HitRadius == 8

NoPoint == Pt(0, 0)
Event(op, at, dt) == [op |-> op, at |-> at, dt |-> dt]

(* ------------------------------------------------------------------ *)
(* Drag handling                                                      *)
(* ------------------------------------------------------------------ *)

Handle(p, i, k) == [x |-> p.x, y |-> p.y, seg |-> i, key |-> k]

\* A handle list that counts the segments from 1.
segHandlesFromOne(s, i) ==
    IF s.type = "line"
    THEN << Handle(s.from, i + 1, "from"), Handle(s.to, i + 1, "to") >>
    ELSE IF s.type = "bezier"
    THEN << Handle(s.from, i + 1, "from"), Handle(s.cp, i + 1, "cp"),
            Handle(s.to, i + 1, "to") >>
    ELSE << Handle(s.center, i + 1, "center") >>

\* A handle list that names the far end of a segment before its near end.
segHandlesToFirst(s, i) ==
    IF s.type = "line"
    THEN << Handle(s.to, i, "to"), Handle(s.from, i, "from") >>
    ELSE IF s.type = "bezier"
    THEN << Handle(s.to, i, "to"), Handle(s.cp, i, "cp"), Handle(s.from, i, "from") >>
    ELSE << Handle(s.center, i, "center") >>

\* The handles one segment contributes; i is its 0-based index.
segHandles(s, i) ==
    IF s.type = "line"
    THEN << Handle(s.from, i, "from"), Handle(s.to, i, "to") >>
    ELSE IF s.type = "bezier"
    THEN << Handle(s.from, i, "from"), Handle(s.cp, i, "cp"), Handle(s.to, i, "to") >>
    ELSE << Handle(s.center, i, "center") >>

RECURSIVE handlesFrom(_, _)
handlesFrom(segs, i) ==
    IF i > Len(segs) THEN << >>
    ELSE segHandles(segs[i], i - 1) \o handlesFrom(segs, i + 1)

handles(p) == handlesFrom(p.segments, 1)

\* A hit test that lets the rim of the hit radius count.
hitOnRim(hd, m) == ~Lt(Num(HitRadius), dist(hd, m))

\* hd is within reach of the pointer at m.
hit(hd, m) == Lt(dist(hd, m), Num(HitRadius))

RECURSIVE findFrom(_, _, _)
\* Array.prototype.find: <<h>> for the first handle that is hit, <<>> for none.
findFrom(hs, m, i) ==
    IF i > Len(hs) THEN << >>
    ELSE IF hit(hs[i], m) THEN << hs[i] >>
    ELSE findFrom(hs, m, i + 1)

find(hs, m) == findFrom(hs, m, 1)

\* A field update that forgets to copy the other fields of the object.
setFieldOnly(obj, k, v) == [f \in {k} |-> v]

\* obj[k] = v of JavaScript: the field is added when the object lacks it.
setField(obj, k, v) ==
    [f \in (DOMAIN obj) \cup {k} |-> IF f = k THEN v ELSE obj[f]]

\* An updater that moves the field d.key of every segment that has one.
movedEverywhere(prev, d, m) ==
    [segments |->
        [j \in 1..Len(prev.segments) |->
            IF d.key \in DOMAIN prev.segments[j]
            THEN setField(prev.segments[j], d.key, m)
            ELSE prev.segments[j]]]

\* The updater onMove hands to setPath, for the handle d and the pointer m.
movedPath(prev, d, m) ==
    LET i    == d.seg + 1
        old  == prev.segments[i]
        seg  == IF old.type = "arc"
                THEN (IF d.key = "center" THEN setField(old, "center", m) ELSE old)
                ELSE setField(old, d.key, m)
    IN  [segments |-> [prev.segments EXCEPT ![i] = seg]]

(* ------------------------------------------------------------------ *)
(* The host: requestAnimationFrame / cancelAnimationFrame             *)
(* ------------------------------------------------------------------ *)

Request(id, cb) == [id |-> id, cb |-> cb]

\* The handle requestAnimationFrame returns: one that no pending request
\* and no reference holds (the host counts upward and never reuses one).
freshHandle(q, ref) ==
    LET taken == { r.id : r \in q } \cup {ref}
    IN  CHOOSE n \in 1..(Cardinality(taken) + 1) : n \notin taken

\* requestAnimationFrame(cb), the host handing out the handle id.
requested(q, id, cb) == q \cup { Request(id, cb) }

\* A cancelAnimationFrame that drops nothing.
cancelledNothing(q, id) == q

\* A cancelAnimationFrame that reaches only requests made before the one
\* whose handle it is given.
cancelledOlder(q, id) == { r \in q : r.id >= id }

\* cancelAnimationFrame(id): the request with that handle, if any, is dropped.
cancelled(q, id) == { r \in q : r.id # id }

\* The closures something still refers to: the latest render's callback and
\* the callbacks of the pending requests.  The others are garbage.
live(cl, f, q) ==
    [k \in (DOMAIN cl) \cap ({f} \cup { r.cb : r \in q }) |-> cl[k]]

(* ------------------------------------------------------------------ *)
(* The component: operations                                          *)
(* ------------------------------------------------------------------ *)

\* The closure useCallback builds in a render whose path is p: it captures
\* p and the `objects` array that render created.
newFrame(p) == [path |-> p, phase |-> InitialPhase]

\* The component after its first render, before its effect has run.
FirstRender ==
    /\ path = InitialPath
    /\ dragging = << >>
    /\ mounted = TRUE
    /\ frame = 0
    /\ closures = (0 :> newFrame(InitialPath))
    /\ effectPending = TRUE
    /\ hasCleanup = FALSE
    /\ raf = {}
    /\ reqRef = 0
    /\ prevTimeRef = 0
    /\ now = 0
    /\ pos = << >>
    /\ collided = << >>
    /\ moves = 0
    /\ last = Event("mount", NoPoint, 0)

\* No call of pointOnPath is under examination.
NoCall == [path |-> [segments |-> << >>], t |-> 0]

Init ==
    /\ FirstRender
    /\ call = NoCall
    /\ stop = << >>

\* onMouseDown at m.  The re-render setDragging causes keeps the memoized
\* frame callback, so no effect runs.
onDown(m) ==
    /\ mounted
    /\ LET h == find(handles(path), m)
       IN  dragging' = IF h # << >> THEN h ELSE dragging
    /\ last' = Event("down", m, 0)
    /\ UNCHANGED << call, stop, path, mounted, frame, closures, effectPending, hasCleanup,
                    raf, reqRef, prevTimeRef, now, pos, collided, moves >>

\* onMouseMove at m.  While dragging, setPath installs a new path; the
\* re-render builds a new `objects` array and, the path being a dependency
\* of useCallback, a new frame callback that captures both; the [frame]
\* effect is scheduled.  React runs the effect of the previous render
\* before it renders again.
onMoveWithin(m, cap) ==
    /\ mounted
    /\ IF dragging = << >>
       THEN UNCHANGED << path, frame, closures, effectPending, moves >>
       ELSE /\ ~effectPending
            /\ moves < cap
            /\ path' = movedPath(path, dragging[1], m)
            /\ frame' = frame + 1
            /\ closures' = live((frame + 1) :> newFrame(path') @@ closures, frame + 1, raf)
            /\ effectPending' = TRUE
            /\ moves' = moves + 1
    /\ last' = Event("move", m, 0)
    /\ UNCHANGED << call, stop, dragging, mounted, hasCleanup, raf, reqRef, prevTimeRef,
                    now, pos, collided >>

\* onMouseMove at m, the model following MaxMoves path edits.
onMove(m) == onMoveWithin(m, MaxMoves)

\* A release that leaves the drag state as it is.
onUpKeepsDrag(op) ==
    /\ mounted
    /\ last' = Event(op, NoPoint, 0)
    /\ UNCHANGED << call, stop, path, dragging, mounted, frame, closures, effectPending,
                    hasCleanup, raf, reqRef, prevTimeRef, now, pos, collided, moves >>

\* onUp: setDragging(null).
onUp(op) ==
    /\ mounted
    /\ dragging' = << >>
    /\ last' = Event(op, NoPoint, 0)
    /\ UNCHANGED << call, stop, path, mounted, frame, closures, effectPending, hasCleanup,
                    raf, reqRef, prevTimeRef, now, pos, collided, moves >>

\* The canvas bindings onMouseUp={onUp} and onMouseLeave={onUp}.
MouseUp == onUp("up")
MouseLeave == onUp("leave")

\* The [frame] effect: the cleanup of its previous run, then its body.
RunEffect ==
    /\ mounted
    /\ effectPending
    /\ LET q  == IF hasCleanup THEN cancelled(raf, reqRef) ELSE raf
           id == freshHandle(q, reqRef)
       IN  /\ raf' = requested(q, id, frame)
           /\ reqRef' = id
           /\ closures' = live(closures, frame, raf')
    /\ effectPending' = FALSE
    /\ hasCleanup' = TRUE
    /\ last' = Event("effect", NoPoint, 0)
    /\ UNCHANGED << call, stop, path, dragging, mounted, frame, prevTimeRef, now, pos,
                    collided, moves >>

\* Unmount: React runs the effect's cleanup (after any effect still pending).
Unmount ==
    /\ mounted
    /\ ~effectPending
    /\ mounted' = FALSE
    /\ raf' = IF hasCleanup THEN cancelled(raf, reqRef) ELSE raf
    /\ closures' = live(closures, frame, raf')
    /\ hasCleanup' = FALSE
    /\ last' = Event("unmount", NoPoint, 0)
    /\ UNCHANGED << call, stop, path, dragging, frame, effectPending, reqRef, prevTimeRef,
                    now, pos, collided, moves >>

\* A frame that takes the stored timestamp as it is, zero included.
previousUnguarded(ref, time) == ref

\* if (!prevTimeRef.current) prevTimeRef.current = time: the timestamp the
\* elapsed time is measured from; a stored 0 counts as "none yet".
previous(ref, time) == IF ref = 0 THEN time ELSE ref

\* (time - prevTimeRef.current) / 1000, for whole milliseconds ms.
seconds(ms) == (ms * Unit) \div 1000

\* o.phase = (o.phase + (o.speed * dt) / plen) % 1
phaseStep(phase, speed, dt, plen) ==
    Mod1(Add(phase, Div(Mul(speed, dt), plen)))

\* A test that lets two objects that just touch count.
overlapOrTouch(ps, i, j) ==
    ~Lt(Add(ObjRadius[i], ObjRadius[j]), dist(ps[i], ps[j]))

\* The test of the collision loop for the pair i, j.
overlap(ps, i, j) ==
    Lt(dist(ps[i], ps[j]), Add(ObjRadius[i], ObjRadius[j]))

\* The flags the collision loop leaves: all false, then both members of
\* every pair i < j that passes the test set to true.
collisions(ps) ==
    [k \in 1..NObjects |->
        \E i \in 1..NObjects : \E j \in (i + 1)..NObjects :
            k \in {i, j} /\ overlap(ps, i, j)]

\* A frame callback that ends without asking for the next frame.
rescheduleNever(q, id, cb) == q

\* reqRef.current = requestAnimationFrame(frame), the last line of frame.
reschedule(q, id, cb) == requested(q, id, cb)

\* The host runs the callback of the pending request r, time d after the
\* previous frame; surf says whether canvas.getContext("2d") yields a
\* context (the canvas itself is there as long as the component is mounted).
frameCall(r, d, surf) ==
    /\ r \in raf
    /\ now + d <= MaxTime
    /\ now' = now + d
    /\ IF ~(mounted /\ surf)
       THEN /\ raf' = raf \ {r}
            /\ closures' = live(closures, frame, raf')
            /\ last' = Event("nosurface", NoPoint, 0)
            /\ UNCHANGED << reqRef, prevTimeRef, pos, collided >>
       ELSE LET time == now + d
                prev == previous(prevTimeRef, time)
                dt   == seconds(time - prev)
                c    == closures[r.cb]
                id   == freshHandle(raf \ {r}, reqRef)
            IN  /\ prevTimeRef' = time
                /\ raf' = reschedule(raf \ {r}, id, r.cb)
                /\ reqRef' = id
                /\ last' = Event("tick", NoPoint, dt)
                /\ \E lens \in { segLens(c.path) } :
                   \E ph \in { [i \in 1..NObjects |->
                                 phaseStep(c.phase[i], ObjSpeed[i], dt, totalOf(lens))] } :
                   \E ps \in { [i \in 1..NObjects |-> pointOnPathOf(c.path, lens, ph[i])] } :
                   /\ pos' = ps
                   /\ collided' = collisions(ps)
                   /\ closures' = live([closures EXCEPT ![r.cb].phase = ph], frame, raf')
    /\ UNCHANGED << call, stop, path, dragging, mounted, frame, effectPending, hasCleanup, moves >>

\* A frame that is painted, and one whose context cannot be had.
Tick == \E r \in raf : \E d \in DtSet : frameCall(r, d, TRUE)
TickNoSurface == \E r \in raf : \E d \in DtSet : frameCall(r, d, FALSE)

PointerDown == \E m \in Pointer : onDown(m)
PointerMove == \E m \in Pointer : onMove(m)

Next ==
    \/ PointerDown
    \/ PointerMove
    \/ MouseUp
    \/ MouseLeave
    \/ RunEffect
    \/ Tick
    \/ TickNoSurface
    \/ Unmount

Spec == Init /\ [][Next]_vars

\* The component while the host hands out no animation frame (a hidden
\* tab), with the wider set of pointer positions.
DragDown == \E m \in DragPointer : onDown(m)
DragMove == \E m \in DragPointer : onMove(m)

DragNext ==
    \/ DragDown
    \/ DragMove
    \/ MouseUp
    \/ MouseLeave
    \/ RunEffect
    \/ Unmount

DragSpec == Init /\ [][DragNext]_vars

\* The whole component again, with the pointer on the second segment's end.
StretchDown == \E m \in StretchPointer : onDown(m)
StretchMove == \E m \in StretchPointer : onMove(m)

StretchNext ==
    \/ StretchDown
    \/ StretchMove
    \/ MouseUp
    \/ MouseLeave
    \/ RunEffect
    \/ Tick
    \/ TickNoSurface
    \/ Unmount

StretchSpec == Init /\ [][StretchNext]_vars

\* The component while it stays mounted and its canvas yields a context,
\* under a host that keeps running scheduled effects and pending frames.
LiveNext ==
    \/ PointerDown
    \/ PointerMove
    \/ MouseUp
    \/ MouseLeave
    \/ RunEffect
    \/ Tick

\* Weak fairness of Tick, WF_vars(Tick), with ENABLED <<Tick>>_vars written
\* out: while the component is mounted a frame can run exactly when a
\* request is pending.
FrameClockFair == []<>(raf = {}) \/ []<><<Tick>>_vars

LiveSpec ==
    Init /\ [][LiveNext]_vars /\ WF_vars(RunEffect) /\ FrameClockFair

(* ------------------------------------------------------------------ *)
(* Drag controller                                                    *)
(* ------------------------------------------------------------------ *)

\* The position of a role within its segment: from, cp, to; center alone.
roleRank(k) == IF k = "cp" THEN 2 ELSE IF k = "to" THEN 3 ELSE 1

\* hs lists one handle per control point of p, by segment and then by role.
InHandleOrder(hs, p) ==
    /\ \A k \in 1..Len(hs) :
          /\ hs[k].seg + 1 \in 1..Len(p.segments)
          /\ hs[k].key \in DOMAIN p.segments[hs[k].seg + 1]
          /\ Pt(hs[k].x, hs[k].y) = p.segments[hs[k].seg + 1][hs[k].key]
    /\ \A a \in 1..Len(hs) : \A b \in (a + 1)..Len(hs) :
          \/ hs[a].seg < hs[b].seg
          \/ hs[a].seg = hs[b].seg /\ roleRank(hs[a].key) < roleRank(hs[b].key)

\* The handles of hs less than 8 away from m, as indexes into hs.
WithinReach(hs, m) ==
    { k \in 1..Len(hs) : Lt(dist(hs[k], m), Num(8)) }

Least(S) == CHOOSE k \in S : \A l \in S : k <= l

\* C1: a pointer-down at m in state idle grabs a handle if and only if some
\* handle of the current path is strictly less than 8 away from m; the
\* handle grabbed is the first such handle by segment and then by role,
\* whichever is nearest; with no such handle the controller stays idle; and
\* the pointer-down leaves the path as it is.
C1_PointerDown ==
    [][ \A m \in DragPointer :
          (dragging = << >> /\ onDown(m)) =>
              LET hs   == handles(path)
                  near == WithinReach(hs, m)
              IN  /\ InHandleOrder(hs, path)
                  /\ path' = path
                  /\ (dragging' # << >>) <=> (near # {})
                  /\ near # {} => dragging' = << hs[Least(near)] >>
      ]_vars

\* A pointer-down has just grabbed a handle although another handle of the
\* path is nearer to the pointer.
C1_GrabbedFirstNotNearest ==
    /\ last.op = "down"
    /\ dragging # << >>
    /\ LET hs == handles(path)
       IN  /\ \E k \in WithinReach(hs, last.at) : hs[k] = dragging[1]
           /\ \E k \in 1..Len(hs) :
                 Lt(dist(hs[k], last.at), dist(dragging[1], last.at))

\* C2: a pointer-move to m while the handle (segment i, role r) is dragged
\* yields a path with the same number and order of segments in which the
\* field r of segment i equals m, every other field of segment i and every
\* other segment being as before.
C2_PointerMove ==
    [][ \A m \in DragPointer :
          (dragging # << >> /\ onMove(m)) =>
              LET i == dragging[1].seg + 1
                  r == dragging[1].key
              IN  /\ DOMAIN path' = DOMAIN path
                  /\ Len(path'.segments) = Len(path.segments)
                  /\ \A j \in 1..Len(path.segments) :
                        j # i => path'.segments[j] = path.segments[j]
                  /\ DOMAIN path'.segments[i] = DOMAIN path.segments[i]
                  /\ \A f \in DOMAIN path.segments[i] :
                        f # r => path'.segments[i][f] = path.segments[i][f]
                  /\ path'.segments[i][r] = m
      ]_vars

\* After an earlier drag, a move has just put the control point of the
\* bezier where the pointer is, away from where it started.
C2_MovedControlPoint ==
    /\ last.op = "move"
    /\ moves >= 2
    /\ dragging # << >>
    /\ dragging[1].key = "cp"
    /\ path.segments[dragging[1].seg + 1].cp = last.at
    /\ path.segments[dragging[1].seg + 1].cp # InitialPath.segments[dragging[1].seg + 1].cp
    /\ path.segments[dragging[1].seg + 1].to = InitialPath.segments[dragging[1].seg + 1].to

(* ------------------------------------------------------------------ *)
(* Moving objects and the animation loop                              *)
(* ------------------------------------------------------------------ *)

\* C3: the objects keep their phase for the lifetime of the loop: a
\* pointer-down, a pointer-move, a pointer-up or leave, and the
\* re-registration of the frame callback leave every object's phase as the
\* latest tick left it, for the next tick to continue from.
C3_PhasesPersist ==
    [][ (PointerDown \/ PointerMove \/ MouseUp \/ MouseLeave \/ RunEffect) =>
          closures'[frame'].phase = closures[frame].phase ]_vars

\* C4: once the component is unmounted no animation-frame request is
\* pending and no tick runs, whatever ticks, pointer events and
\* re-registrations came before.
C4_UnmountCancels ==
    /\ [](~mounted => raf = {})
    /\ [][ ~mounted => ~(Tick \/ TickNoSurface) ]_vars

\* The component is unmounted after frames were painted and after a path
\* edit replaced the frame callback.
C4_UnmountedAfterEdits ==
    /\ ~mounted
    /\ last.op = "unmount"
    /\ pos # << >>
    /\ now > 0
    /\ moves > 0
    /\ frame > 0

\* (phase + speed * dt / len) mod 1, for a finite positive len.
advanced(phase, speed, dt, len) == (phase + Div(Mul(speed, dt), len)) % Unit

\* C5: a tick with elapsed time dt sets each object's phase to
\* (phase + speed * dt / totalLength(path)) mod 1 for the path current at
\* that tick, and every object's phase is in [0,1) in every reachable state.
C5_PhaseAdvance ==
    /\ [](\A k \in DOMAIN closures : \A i \in 1..NObjects :
            closures[k].phase[i] >= 0 /\ closures[k].phase[i] < Unit)
    /\ [][ \A r \in raf : \A d \in DtSet :
             (last'.op = "tick" /\ frameCall(r, d, TRUE)) =>
                 \A i \in 1..NObjects :
                     closures'[r.cb].phase[i] =
                         advanced(closures[r.cb].phase[i], ObjSpeed[i],
                                  last'.dt, totalLen(path)) ]_vars

\* C6: after every painted tick, object i is flagged as colliding if and
\* only if some other object j is strictly less than radius[i] + radius[j]
\* away from it, by the positions of that tick alone: two objects at the
\* same position are both flagged, two objects exactly radius[i] +
\* radius[j] apart are not.
C6_Collisions ==
    pos # << >> =>
        \A i \in 1..NObjects :
            collided[i] <=>
                \E j \in (1..NObjects) \ {i} :
                    Lt(dist(pos[i], pos[j]), Add(ObjRadius[i], ObjRadius[j]))

\* A tick has painted both objects at one position, and flagged both.
C6_SamePositionFlagged ==
    /\ last.op = "tick"
    /\ pos # << >>
    /\ pos[1] = pos[2]
    /\ IsFinite(pos[1].x) /\ IsFinite(pos[1].y)
    /\ collided[1] /\ collided[2]

\* The arc-length parameters the path is sampled at: 0, 1/2 and 1.
SampleT == { 0, Unit \div 2, Unit }

WellDefined(p) == IsFinite(p.x) /\ IsFinite(p.y)

\* C7: pointOnPath does not divide by zero on a zero-length segment,
\* wherever in the path it is: every position a tick paints, and the point
\* of the current path at every sampled t in [0,1], is a well-defined point.
C7_NoDivisionByZero ==
    /\ \A i \in DOMAIN pos : WellDefined(pos[i])
    /\ \A t \in SampleT : WellDefined(pointOnPath(path, t))

\* C8: pointOnPath(path, 0) is the start point of the first segment of the
\* path and pointOnPath(path, 1) the end point (local t = 1) of its last.
C8_EndPoints ==
    /\ pointOnPath(path, 0) = pointOnSeg(path.segments[1], 0)
    /\ pointOnPath(path, Unit) =
           pointOnSeg(path.segments[Len(path.segments)], Unit)

\* C9: a pointer-up and the pointer leaving the canvas leave the controller
\* idle and the path as it was; the path changes only by a pointer-move
\* received while dragging, and the controller leaves idle only by a
\* pointer-down.
C9_Release ==
    [][ /\ (MouseUp \/ MouseLeave) => (dragging' = << >> /\ path' = path)
        /\ path' # path => (dragging # << >> /\ PointerMove)
        /\ (dragging = << >> /\ dragging' # << >>) => PointerDown
      ]_vars

\* The pointer has left the canvas: the controller is idle and the path
\* still holds the edits of the drag.
C9_ReleasedWithEdits ==
    /\ last.op = "leave"
    /\ dragging = << >>
    /\ moves > 0
    /\ path # InitialPath

C11_NoSurfaceTick ==
    [][ TickNoSurface =>
          /\ \A k \in DOMAIN closures' : closures'[k] = closures[k]
          /\ prevTimeRef' = prevTimeRef
          /\ mounted' => raf' # {}
      ]_vars

\* C12: a tick with elapsed time 0 leaves every phase of its objects as it
\* was, and the first painted tick after mount has elapsed time 0 whatever
\* its timestamp, so it leaves every phase at its initial value.
C12_FirstTick ==
    [][ \A r \in raf :
          (/\ last'.op = "tick"
           /\ r.cb \in DOMAIN closures'
           /\ \E d \in DtSet : frameCall(r, d, TRUE))
          => /\ last'.dt = 0 => closures'[r.cb].phase = closures[r.cb].phase
             /\ prevTimeRef = 0 =>
                  /\ last'.dt = 0
                  /\ closures'[r.cb].phase = InitialPhase
      ]_vars

\* The first frame came at a timestamp that is not 0 and left the phases at
\* 0.0 and 0.3.
C12_FirstTickLate ==
    /\ last.op = "tick"
    /\ last.dt = 0
    /\ now = FrameGap
    /\ prevTimeRef = now
    /\ \E r \in raf : closures[r.cb].phase = InitialPhase

\* The roles of the control points of a segment, in the order its handles
\* are pushed.
Roles(s) ==
    IF s.type = "line" THEN << "from", "to" >>
    ELSE IF s.type = "bezier" THEN << "from", "cp", "to" >>
    ELSE << "center" >>

\* The handle list of segs from the i-th segment on, written down from the
\* segment variants: one handle per role, at the value of that field.
RECURSIVE Expected(_, _)
Expected(segs, i) ==
    IF i > Len(segs) THEN << >>
    ELSE [ k \in 1..Len(Roles(segs[i])) |->
             [x |-> segs[i][Roles(segs[i])[k]].x,
              y |-> segs[i][Roles(segs[i])[k]].y,
              seg |-> i - 1,
              key |-> Roles(segs[i])[k]] ]
         \o Expected(segs, i + 1)

\* C13: handles(path) lists, in segment order, from,to of a line, from,cp,to
\* of a curve and center of an arc, each with its segment index and role and
\* at the current value of that field; it depends on the path only; and
\* after a drag move to a position the dragged handle is listed there.
C13_HandlesOf ==
    /\ [](/\ handles(path) = Expected(path.segments, 1)
          /\ InHandleOrder(handles(path), path)
          /\ \A c \in DOMAIN closures :
                c = frame => handles(closures[c].path) = handles(path))
    /\ [][ \A m \in DragPointer :
             (dragging # << >> /\ moves' = moves + 1 /\ onMove(m)) =>
                 \E k \in 1..Len(handles(path')) :
                     /\ handles(path')[k].seg = dragging[1].seg
                     /\ handles(path')[k].key = dragging[1].key
                     /\ handles(path')[k].x = m.x
                     /\ handles(path')[k].y = m.y
                     /\ \A j \in 1..Len(handles(path)) :
                           j # k => handles(path')[j] = handles(path)[j]
         ]_vars

\* The center of the arc was dragged: its handle is listed where the
\* pointer is, the handle list keeping its eight entries.
C13_ArcHandleMoved ==
    /\ last.op = "move"
    /\ dragging # << >>
    /\ dragging[1].key = "center"
    /\ Len(handles(path)) = 8
    /\ \E k \in 1..Len(handles(path)) :
          /\ handles(path)[k] = Handle(last.at, dragging[1].seg, "center")
          /\ Pt(handles(path)[k].x, handles(path)[k].y)
                # InitialPath.segments[dragging[1].seg + 1].center

\* C14: at every moment at most one animation-frame request is pending and
\* its handle is the one stored last; the cleanup of the effect cancels that
\* request, so that once the effect of a render has run the only callback
\* pending is the one of that render: no callback of an older path goes on.
C14_OnePending ==
    /\ [](/\ Cardinality(raf) <= 1
          /\ \A r \in raf :
                /\ r.id = reqRef
                /\ r.cb \in DOMAIN closures
                /\ ~effectPending => r.cb = frame /\ closures[r.cb].path = path)
    /\ [][ (effectPending /\ ~effectPending' /\ hasCleanup) =>
              /\ raf \cap raf' = {}
              /\ raf' = { Request(reqRef', frame') }
         ]_vars

\* Between a path edit and its effect the callback of the previous path has
\* run and asked for another frame: that request is the only one pending
\* and its handle is the one stored.
C14_StaleCallbackPending ==
    /\ effectPending
    /\ hasCleanup
    /\ last.op = "tick"
    /\ raf # {}
    /\ \A r \in raf : r.cb # frame /\ r.id = reqRef /\ closures[r.cb].path # path

(* ------------------------------------------------------------------ *)
(* pointOnPath as a function: where its loop returns                  *)
(* ------------------------------------------------------------------ *)

RECURSIVE locate(_, _, _, _, _)
\* The for loop of pointOnPath from segment i on, telling where it returns:
\* the segment (0 past the last one), the target, the accumulated length,
\* the segment's length, the local parameter and the point returned.
locate(segs, lens, tgt, i, acc) ==
    IF i > Len(segs)
    THEN [seg |-> 0, tgt |-> tgt, acc |-> acc, len |-> 0, local |-> Unit,
          point |-> pointOnSeg(segs[Len(segs)], Unit)]
    ELSE IF Ge(Add(acc, lens[i]), tgt)
         THEN [seg |-> i, tgt |-> tgt, acc |-> acc, len |-> lens[i],
               local |-> localT(tgt, acc, lens[i]),
               point |-> pointOnSeg(segs[i], localT(tgt, acc, lens[i]))]
         ELSE locate(segs, lens, tgt, i + 1, Add(acc, lens[i]))

\* A path of line segments along the x axis, through the abscissas xs.
Polyline(xs) ==
    [segments |-> [i \in 1..(Len(xs) - 1) |->
                      LineSeg(Pt(Num(xs[i]), 0), Pt(Num(xs[i + 1]), 0))]]

\* The paths pointOnPath is examined on: the component's path, that path
\* with its first and with its second segment dragged to length zero, and
\* polylines whose segment boundaries fall on the sampled t, one of them
\* with a zero-length segment in the middle and one with it in front.
WalkPaths ==
    { InitialPath,
      movedPath(InitialPath, Handle(Pt(Num(80), Num(60)), 0, "from"), Pt(Num(320), Num(60))),
      movedPath(InitialPath, Handle(Pt(Num(320), Num(220)), 1, "to"), Pt(Num(320), Num(60))),
      Polyline(<< 0, 200, 400 >>),
      Polyline(<< 0, 100, 400 >>),
      Polyline(<< 0, 200, 200, 400 >>),
      Polyline(<< 0, 0, 400 >>),
      Polyline(<< 0, 300, 400, 400 >>),
      [segments |-> << LineSeg(Pt(0, 0), Pt(Num(100), 0)),
                       ArcSeg(Pt(Num(200), 0), Num(100), PI, 0),
                       BezierSeg(Pt(Num(300), 0), Pt(Num(300), Num(50)), Pt(Num(300), Num(100))) >>] }

\* The t pointOnPath is examined at.
WalkT ==
    { 0, 1, Unit \div 10, Unit \div 4, (3 * Unit) \div 10, Unit \div 2,
      (3 * Unit) \div 4, Unit - 1, Unit }

WalkInit ==
    /\ FirstRender
    /\ call \in [path : WalkPaths, t : WalkT]
    /\ stop = << >>

\* pointOnPath(call.path, call.t) runs.
Locate ==
    /\ stop = << >>
    /\ \E lens \in { segLens(call.path) } :
          stop' = << locate(call.path.segments, lens, Mul(totalOf(lens), call.t), 1, 0) >>
    /\ UNCHANGED << path, dragging, mounted, frame, closures, effectPending,
                    hasCleanup, raf, reqRef, prevTimeRef, now, pos, collided,
                    moves, last, call >>

WalkNext == Locate

WalkSpec == WalkInit /\ [][WalkNext]_vars

\* tgt lies on the boundary between segment k and the next one.
OnBoundary(lens, tgt, k) ==
    k < Len(lens) /\ tgt = reduceLen(lens, k)

\* C15: when pointOnPath hands a segment of positive length to pointOnSeg,
\* for t in [0,1], the accumulated length is the length of the segments
\* before it and does not exceed the target, and the local parameter
\* (tgt - acc) / l lies in [0,1]; a target on the boundary between two
\* segments resolves to the end, local parameter 1, of the earlier one.
C15_LocalParameter ==
    stop # << >> =>
        LET s    == stop[1]
            lens == segLens(call.path)
        IN  /\ s.point = pointOnPath(call.path, call.t)
            /\ s.tgt = Mul(totalLen(call.path), call.t)
            /\ (s.seg > 0 /\ Lt(0, s.len)) =>
                  /\ s.acc = reduceLen(lens, s.seg - 1)
                  /\ Ge(s.tgt, s.acc)
                  /\ Ge(s.local, 0)
                  /\ Ge(Unit, s.local)
                  /\ \A k \in 1..Len(lens) :
                        (OnBoundary(lens, s.tgt, k) /\ Lt(0, lens[k])) =>
                            s.seg = k /\ s.local = Unit

\* The target fell on the boundary after the first segment, a zero-length
\* segment following it: the loop returned the end of the first segment.
C15_BoundaryResolved ==
    /\ stop # << >>
    /\ stop[1].seg = 1
    /\ stop[1].local = Unit
    /\ Len(call.path.segments) = 3
    /\ OnBoundary(segLens(call.path), stop[1].tgt, 1)
    /\ OnBoundary(segLens(call.path), stop[1].tgt, 2)

\* p has the shape of the path the component was created with: the same
\* number of segments, each of the same variant and with the same fields,
\* every field that is not a point being as it was, every point a point.
SameStructure(p) ==
    /\ DOMAIN p = DOMAIN InitialPath
    /\ Len(p.segments) = Len(InitialPath.segments)
    /\ \A i \in 1..Len(InitialPath.segments) :
          /\ DOMAIN p.segments[i] = DOMAIN InitialPath.segments[i]
          /\ \A f \in DOMAIN InitialPath.segments[i] :
                IF f \in {"from", "to", "cp", "center"}
                THEN /\ DOMAIN p.segments[i][f] = {"x", "y"}
                     /\ WellDefined(p.segments[i][f])
                ELSE p.segments[i][f] = InitialPath.segments[i][f]

\* C16: the path keeps its initial structure: four segments, a line, a
\* line, an arc and a quadratic curve in that order, the arc's radius,
\* startAngle and endAngle being 120, 0 and pi; only points ever change.
C16_Structure ==
    /\ SameStructure(path)
    /\ \A c \in DOMAIN closures : SameStructure(closures[c].path)
    /\ Len(path.segments) = 4
    /\ << path.segments[1].type, path.segments[2].type,
          path.segments[3].type, path.segments[4].type >>
          = << "line", "line", "arc", "bezier" >>
    /\ path.segments[3].radius = Num(120)
    /\ path.segments[3].startAngle = 0
    /\ path.segments[3].endAngle = PI

\* The arc's center and one more handle were dragged away from where they
\* started.
C16_ArcAndOtherMoved ==
    /\ moves = 2
    /\ path.segments[3].center # InitialPath.segments[3].center
    /\ \E i \in {1, 2, 4} : path.segments[i] # InitialPath.segments[i]

(* ------------------------------------------------------------------ *)
(* Every handle dragged onto one point                                *)
(* ------------------------------------------------------------------ *)

\* The point the handles are dragged onto: the corner the two lines share.
CollapsePoint == Pt(Num(320), Num(60))

\* Where the other handles of the lines and of the curve start.
CollapseGrab ==
    { Pt(Num(c[1]), Num(c[2])) : c \in { <<80, 60>>, <<320, 220>>, <<80, 220>> } }

CollapseDown == \E m \in CollapseGrab : onDown(m)
CollapseMove == onMoveWithin(CollapsePoint, MaxCollapseMoves)

\* The component under a user who grabs the handles where they start and
\* drags each onto CollapsePoint, while the host hands out no frame: every
\* callback a frame could run is registered and kept in `closures`.
CollapseNext ==
    \/ CollapseDown
    \/ CollapseMove
    \/ MouseUp
    \/ RunEffect

CollapseSpec == Init /\ [][CollapseNext]_vars

\* C17: the total length of the path is positive in every reachable state,
\* the arc keeping its length whatever is dragged: the tick never divides by
\* a zero total length and pointOnPath never has a zero target range, even
\* with every handle of the lines and of the curve on one point.
C17_PositiveLength ==
    /\ \A t \in { totalLen(path) } :
          /\ Lt(0, t)
          /\ Ge(t, Mul(PI, Num(120)))
          /\ \A i \in 1..NObjects : \A dt \in { seconds(d) : d \in DtSet } :
                IsFinite(phaseStep(InitialPhase[i], ObjSpeed[i], dt, t))
    /\ \A c \in DOMAIN closures :
          /\ Lt(0, totalLen(closures[c].path))
          /\ segLen(closures[c].path.segments[3]) = Mul(PI, Num(120))

\* Every handle of the two lines and of the curve lies on one point, and
\* the frame callback of that path is the one registered.
C17_AllOnOnePoint ==
    /\ last.op = "effect"
    /\ \A i \in {1, 2, 4} : \A f \in DOMAIN path.segments[i] :
          f # "type" => path.segments[i][f] = CollapsePoint
    /\ \E r \in raf : closures[r.cb].path = path
    /\ segLen(path.segments[1]) = 0
    /\ segLen(path.segments[2]) = 0
    /\ Lt(totalLen(path), Mul(PI, Num(120)) + Num(10))

\* The handle identity h names a segment of p and a role of its variant.
Names(h, p) ==
    /\ h.seg + 1 \in 1..Len(p.segments)
    /\ \E k \in 1..Len(Roles(p.segments[h.seg + 1])) :
          Roles(p.segments[h.seg + 1])[k] = h.key
    /\ h.key \in DOMAIN p.segments[h.seg + 1]

\* C18: while the controller is dragging, the stored handle identity names
\* an existing segment of the current path and a role of that segment's
\* variant, so that a drag move writes no field the segment lacks and
\* nothing outside the segment sequence.
C18_HandleIdentity ==
    /\ [](dragging # << >> => Names(dragging[1], path))
    /\ [][ (dragging # << >> /\ path' # path) =>
              /\ Names(dragging[1], path')
              /\ DOMAIN path'.segments = DOMAIN path.segments
              /\ \A i \in DOMAIN path.segments :
                    DOMAIN path'.segments[i] = DOMAIN path.segments[i]
              /\ path'.segments[dragging[1].seg + 1] # path.segments[dragging[1].seg + 1]
         ]_vars

\* After two path edits the end point of the curve, the last handle of the
\* last segment, is the one being dragged.
C18_LastHandleGrabbed ==
    /\ dragging # << >>
    /\ moves = 2
    /\ dragging[1].seg = Len(path.segments) - 1
    /\ dragging[1].key = "to"
    /\ last.op = "down"

====
